---- MODULE Spec2Model ----
(***************************************************************************)
(* Snapshot-diff spreadsheet watchers of datanger/AI-Agent:                *)
(*   demo.py             ExcelMonitor (inotify queue + worker thread)      *)
(*   libre_monitor.py    RealTimeMonitor (UNO modify listener)             *)
(*   wps_monitor_win.py  RealTimeMonitor (WPS COM OnSheetChange)           *)
(* and its proxy in front of the gemini command line tool:                 *)
(*   gemini_proxy/gemini_process.py  GeminiProcess                         *)
(*   gemini_proxy/app.py             the Flask routes that call it         *)
(* Texts are sequences of one-character strings; "chu","fa" stand for the  *)
(* two characters of TRIGGER_TEXT.                                         *)
(***************************************************************************)
EXTENDS Integers, Sequences, FiniteSets, TLC

VARIABLES
    program,        \* which script runs: "diff" harness, "file" (demo.py), "libre", "wps",
                    \* "gemini" (gemini_proxy)
    limits,         \* how much the environment does in this run
    dOld, dNew, dOut, dPc,                  \* the diff applied to a pair of snapshots
    disk,           \* file system: path -> workbook
    flocked,        \* paths another process holds an exclusive flock on
    clock,          \* datetime.now(), in seconds
    ownEvents,      \* inotify: watched paths with an event raised by the monitor's own
                    \* file operations that event_gen() has not delivered yet
    tmp,            \* "<path>.tmp" files: path -> workbook
    backups,        \* "<path>.backup_<stamp>" files: <<path, stamp>> -> workbook
    excel_states,   \* ExcelMonitor.excel_states
    event_queue,    \* ExcelMonitor.event_queue
    running,        \* ExcelMonitor.running
    processed,      \* the local set of _process_events
    mainPc, loadIdx,                        \* start_monitoring
    wkPc, wkFile, wkWb, wkModified,         \* _process_events / process_excel
    loDoc, loStates, loListening, loPc, loIdx,      \* libre_monitor.py
    wpsBook, wpsStates, wpsCallback, wpsPending, wpsPc, wpsIdx,   \* wps_monitor_win.py
    gmProcess,      \* GeminiProcess.process: a process id, or NoProc for None
    gmRunning,      \* GeminiProcess.running
    gmQueue,        \* GeminiProcess.output_queue
    gmProcs,        \* the gemini processes: state, stdin, the prompt being answered, stdout
    gmMon,          \* the threads running _monitor_output
    gmCall,         \* the requests being served: update_config and one per prompt
    gmHist,         \* history of the proxy: prompts written, overlapping requests, counts
    lastDiff,       \* history: the last comparison made and what it logged
    passNo, reproc, nSignals, nEdits, nLocks,   \* history: passes and signals
    leftOnDisk,     \* history: path -> the workbook on disk when its last pass ended
    preHighlight,   \* history: backup -> what the file held when the backup was created
    unsignalled,    \* history: paths written by another program with no signal since
    writtenSince,   \* history: paths written by another program since their last capture
    skipped         \* history: paths whose pass returned at the lock probe, not captured since

diffVars == <<dOld, dNew, dOut, dPc>>
envVars == <<disk, flocked, clock, ownEvents>>
fileVars == <<tmp, backups, excel_states, event_queue, running, processed,
              mainPc, loadIdx, wkPc, wkFile, wkWb, wkModified>>
libreVars == <<loDoc, loStates, loListening, loPc, loIdx>>
wpsVars == <<wpsBook, wpsStates, wpsCallback, wpsPending, wpsPc, wpsIdx>>
gemVars == <<gmProcess, gmRunning, gmQueue, gmProcs, gmMon, gmCall, gmHist>>
histVars == <<lastDiff, passNo, reproc, nSignals, nEdits, nLocks, leftOnDisk,
              preHighlight, unsignalled, writtenSince, skipped>>
countVars == <<passNo, reproc, nSignals, nEdits, nLocks>>
\* what the steps of demo.py leave alone
notFile == <<program, limits, diffVars, libreVars, wpsVars, gemVars>>
vars == <<program, limits, diffVars, envVars, fileVars, libreVars, wpsVars, gemVars,
          histVars>>

(***************************************************************************)
(* Python values                                                           *)
(***************************************************************************)
\* None is a value apart from every text (a text is a sequence of characters)
None == <<"None">>

EmptyDict == <<>>

DictGet(d, k) == IF k \in DOMAIN d THEN d[k] ELSE None

DictSet(d, k, v) == [x \in (DOMAIN d) \cup {k} |-> IF x = k THEN v ELSE d[x]]

DictDel(d, k) == [x \in (DOMAIN d) \ {k} |-> d[x]]

(***************************************************************************)
(* Text: str.strip(), substring test, code-point order of sorted()         *)
(***************************************************************************)
IsSpace(c) == c = " "

RECURSIVE LStrip(_)
LStrip(t) == IF t = <<>> THEN <<>>
             ELSE IF IsSpace(Head(t)) THEN LStrip(Tail(t)) ELSE t

RECURSIVE RStrip(_)
RStrip(t) == IF t = <<>> THEN <<>>
             ELSE IF IsSpace(t[Len(t)]) THEN RStrip(SubSeq(t, 1, Len(t) - 1)) ELSE t

Strip(t) == RStrip(LStrip(t))

Contains(sub, t) ==
    \E i \in 1..(Len(t) - Len(sub) + 1) : SubSeq(t, i, i + Len(sub) - 1) = sub

Code(c) == CASE c = "0" -> 48 [] c = "1" -> 49 [] c = "2" -> 50
             [] c = "A" -> 65 [] c = "B" -> 66 [] c = "C" -> 67 [] OTHER -> 0

RECURSIVE LexLess(_, _)
LexLess(a, b) ==
    IF b = <<>> THEN FALSE
    ELSE IF a = <<>> THEN TRUE
    ELSE IF Code(Head(a)) # Code(Head(b)) THEN Code(Head(a)) < Code(Head(b))
    ELSE LexLess(Tail(a), Tail(b))

\* every order in which iterating a Python set can deliver its elements
Orders(S) ==
    {p \in [1..Cardinality(S) -> S] : \A i, j \in 1..Cardinality(S) : p[i] = p[j] => i = j}

\* sorted(S) for a set of strings
Sorted(S) ==
    CHOOSE p \in Orders(S) : \A i, j \in 1..Cardinality(S) : i < j => LexLess(p[i], p[j])

(***************************************************************************)
(* Universe of sheet names, cell addresses and cell texts                  *)
(***************************************************************************)
TRIGGER_TEXT == <<"chu", "fa">>

Files == {"a.xlsx", "b.xlsx"}

\* sheet names and cell addresses are strings too: sequences of characters
Sheets == {<<"A">>, <<"B">>, <<"C">>}

Addrs == {<<"A", "1", "0">>, <<"A", "2">>}

Texts == {<<>>, <<" ">>, <<"h", "i">>, <<"chu", "fa">>}

\* texts a snapshot of the data model may hold
SnapTexts == {t \in Texts : Strip(t) # <<>>}

MaxDiffCells == 3

RECURSIVE SumOver(_, _)
SumOver(d, S) ==
    IF S = {} THEN 0
    ELSE LET k == CHOOSE x \in S : TRUE
         IN Cardinality(DOMAIN d[k]) + SumOver(d, S \ {k})

CellCount(state) == SumOver(state, DOMAIN state)

SheetDicts == UNION {[A -> SnapTexts] : A \in (SUBSET Addrs) \ {{}}}

Snapshots ==
    {s \in UNION {[S -> SheetDicts] : S \in SUBSET Sheets} : CellCount(s) <= MaxDiffCells}

(***************************************************************************)
(* ExcelMonitor._log_state_diff                                            *)
(***************************************************************************)
SheetEvent(kind, file, sheet) ==
    [kind |-> kind, file |-> file, sheet |-> sheet, cell |-> None,
     old |-> None, new |-> None]

CellEvent(kind, file, sheet, cell, old, new) ==
    [kind |-> kind, file |-> file, sheet |-> sheet, cell |-> cell,
     old |-> old, new |-> new]

\* without the test "old_value != new_value"
CellDiffAlways(file, sheet, old_sheet_state, new_sheet_state, cell) ==
    LET old_value == DictGet(old_sheet_state, cell)
        new_value == DictGet(new_sheet_state, cell)
    IN  IF old_value = None
        THEN <<CellEvent("CellCreated", file, sheet, cell, None, new_value)>>
        ELSE IF new_value = None
        THEN <<CellEvent("CellDeleted", file, sheet, cell, old_value, None)>>
        ELSE <<CellEvent("CellUpdated", file, sheet, cell, old_value, new_value)>>

\* without the branch "elif new_value is None"
CellDiffNoDelete(file, sheet, old_sheet_state, new_sheet_state, cell) ==
    LET old_value == DictGet(old_sheet_state, cell)
        new_value == DictGet(new_sheet_state, cell)
    IN  IF old_value # new_value
        THEN IF old_value = None
             THEN <<CellEvent("CellCreated", file, sheet, cell, None, new_value)>>
             ELSE <<CellEvent("CellUpdated", file, sheet, cell, old_value, new_value)>>
        ELSE <<>>

\* the body of the loop over sorted(all_cells), for one cell
CellDiff(file, sheet, old_sheet_state, new_sheet_state, cell) ==
    LET old_value == DictGet(old_sheet_state, cell)
        new_value == DictGet(new_sheet_state, cell)
    IN  IF old_value # new_value
        THEN IF old_value = None
             THEN <<CellEvent("CellCreated", file, sheet, cell, None, new_value)>>
             ELSE IF new_value = None
             THEN <<CellEvent("CellDeleted", file, sheet, cell, old_value, None)>>
             ELSE <<CellEvent("CellUpdated", file, sheet, cell, old_value, new_value)>>
        ELSE <<>>

RECURSIVE CellLoop(_, _, _, _, _)
CellLoop(file, sheet, old_sheet_state, new_sheet_state, cells) ==
    IF cells = <<>> THEN <<>>
    ELSE CellDiff(file, sheet, old_sheet_state, new_sheet_state, Head(cells))
         \o CellLoop(file, sheet, old_sheet_state, new_sheet_state, Tail(cells))

\* row-number order instead of string order: A2 before A10
CellOrderNatural(all_cells) ==
    CHOOSE p \in Orders(all_cells) : \A i, j \in 1..Cardinality(all_cells) :
        i < j => \/ Len(p[i]) < Len(p[j])
                 \/ Len(p[i]) = Len(p[j]) /\ LexLess(p[i], p[j])

\* the order in which one sheet's cells are visited
CellOrder(all_cells) == Sorted(all_cells)

SheetDiff(file, sheet, old_sheet_state, new_sheet_state) ==
    CellLoop(file, sheet, old_sheet_state, new_sheet_state,
             CellOrder((DOMAIN old_sheet_state) \cup (DOMAIN new_sheet_state)))

RECURSIVE SheetEvents(_, _, _)
SheetEvents(kind, file, order) ==
    IF order = <<>> THEN <<>>
    ELSE <<SheetEvent(kind, file, Head(order))>> \o SheetEvents(kind, file, Tail(order))

RECURSIVE SharedLoop(_, _, _, _)
SharedLoop(file, old_state, new_state, order) ==
    IF order = <<>> THEN <<>>
    ELSE SheetDiff(file, Head(order), DictGet(old_state, Head(order)),
                   DictGet(new_state, Head(order)))
         \o SharedLoop(file, old_state, new_state, Tail(order))

\* without the early return
IsFirstLoadNever(old_state) == FALSE

\* "if not old_state: return"
IsFirstLoad(old_state) == old_state = EmptyDict

\* the event sequences one call can log: one per iteration order of its three sets
LogStateDiff(file, old_state, new_state) ==
    IF IsFirstLoad(old_state) THEN {<<>>}
    ELSE LET old_sheets == DOMAIN old_state
             new_sheets == DOMAIN new_state
         IN  {SheetEvents("SheetCreated", file, pa)
                \o SheetEvents("SheetRemoved", file, pr)
                \o SharedLoop(file, old_state, new_state, ps) :
                    pa \in Orders(new_sheets \ old_sheets),
                    pr \in Orders(old_sheets \ new_sheets),
                    ps \in Orders(old_sheets \cap new_sheets)}

(***************************************************************************)
(* Workbooks: sheet -> address -> cell; a cell has a text and a highlight  *)
(* (GREEN_FILL with centred alignment)                                     *)
(***************************************************************************)
Cell(v, h) == [value |-> v, hl |-> h]

NoFile == ""

NoBook == <<>>

OnDisk(wb) == [exists |-> TRUE, wb |-> wb]

NotOnDisk == [exists |-> FALSE, wb |-> NoBook]

\* openpyxl.load_workbook succeeds on the file: a workbook has at least one sheet,
\* a file holding none is a truncated or half-written archive
Parsable(file) == file.exists /\ file.wb # NoBook

\* "cell.value is not None and str(cell.value).strip() != ''"
KeepCell(value) == value # None /\ Strip(value) # <<>>

\* ExcelMonitor._get_excel_state on the file's content
GetExcelState(file) ==
    IF ~file.exists THEN EmptyDict
    ELSE LET wb == file.wb
             kept(ws) == {a \in DOMAIN wb[ws] : KeepCell(wb[ws][a].value)}
         IN  [ws \in {x \in DOMAIN wb : kept(x) # {}} |->
                [a \in kept(ws) |-> wb[ws][a].value]]

\* incremental instead of wholesale: sheets of the stored state that the new one lacks
\* are kept
StoreStateMerge(states, f, new_state) ==
    LET old_state == IF f \in DOMAIN states THEN states[f] ELSE EmptyDict
    IN  DictSet(states, f,
                [ws \in (DOMAIN old_state) \cup (DOMAIN new_state) |->
                    IF ws \in DOMAIN new_state THEN new_state[ws] ELSE old_state[ws]])

\* "self.excel_states[file_path] = new_state"
StoreState(states, f, new_state) == DictSet(states, f, new_state)

\* "cell.value and self.TRIGGER_TEXT in str(cell.value)"
IsTrigger(value) == value # None /\ value # <<>> /\ Contains(TRIGGER_TEXT, value)

HighlightCell(cell) == IF IsTrigger(cell.value) THEN Cell(cell.value, TRUE) ELSE cell

\* the scan of process_excel over the loaded copy: the workbook it leaves in memory
Highlight(wb) == [ws \in DOMAIN wb |-> [a \in DOMAIN wb[ws] |-> HighlightCell(wb[ws][a])]]

\* the "modified" flag of that scan
Modified(wb) == \E ws \in DOMAIN wb : \E a \in DOMAIN wb[ws] : IsTrigger(wb[ws][a].value)

(***************************************************************************)
(* Bounds and initial contents                                             *)
(***************************************************************************)
MaxQueue == 4

\* a burst of signals and nothing else
MaxSignals == 5

\* a few signals among edits, or among clock ticks, or among lock changes
MaxEditSignals == 2

MaxEdits == 1

MaxLocks == 2

MaxClock == 1

MaxDamage == 1

BurstLimits == [signals |-> MaxSignals, edits |-> 0, locks |-> 0, ticks |-> 0,
                stop |-> FALSE, damage |-> 0, own |-> FALSE]

EditLimits == [signals |-> MaxEditSignals, edits |-> MaxEdits, locks |-> 0, ticks |-> 0,
               stop |-> FALSE, damage |-> 0, own |-> FALSE]

ClockLimits == [signals |-> MaxEditSignals, edits |-> 0, locks |-> 0, ticks |-> MaxClock,
                stop |-> FALSE, damage |-> 0, own |-> FALSE]

LockLimits == [signals |-> MaxEditSignals, edits |-> 0, locks |-> MaxLocks, ticks |-> 0,
               stop |-> FALSE, damage |-> 0, own |-> FALSE]

\* a few signals, and a workbook deleted or caught half-written
DamageLimits == [signals |-> MaxEditSignals, edits |-> 0, locks |-> 0, ticks |-> 0,
                 stop |-> FALSE, damage |-> MaxDamage, own |-> FALSE]

\* a few signals and a Ctrl+C
StopLimits == [signals |-> MaxEditSignals, edits |-> 0, locks |-> 0, ticks |-> 0,
               stop |-> TRUE, damage |-> 0, own |-> FALSE]

\* one edit, a lock taken and dropped, one signal, and the delivery of the events
\* that the monitor's own file operations raise
OwnLimits == [signals |-> 1, edits |-> MaxEdits, locks |-> MaxLocks, ticks |-> 0,
              stop |-> FALSE, damage |-> 0, own |-> TRUE]

NoLimits == [signals |-> 0, edits |-> 0, locks |-> 0, ticks |-> 0,
             stop |-> FALSE, damage |-> 0, own |-> FALSE]

file_paths == <<"a.xlsx", "b.xlsx">>

Watched == {file_paths[i] : i \in DOMAIN file_paths}

EventTypes == {"IN_MODIFY", "IN_CLOSE_WRITE", "IN_OPEN"}

A10 == <<"A", "1", "0">>

A2 == <<"A", "2">>

PlainBook == (<<"A">> :> (A10 :> Cell(<<"h", "i">>, FALSE)))

TriggerBook == (<<"A">> :> (A10 :> Cell(TRIGGER_TEXT, FALSE)))

InitBooks ==
    {(<<"A">> :> EmptyDict),
     PlainBook,
     TriggerBook,
     (<<"A">> :> (A10 :> Cell(<<"h", "i">>, FALSE) @@ A2 :> Cell(<<"h", "i">>, FALSE)))}

NoDiff == [file |-> NoFile, old |-> EmptyDict, new |-> EmptyDict, events |-> <<>>,
           hadBaseline |-> TRUE, n |-> 0]

DiffIdle == dOld = EmptyDict /\ dNew = EmptyDict /\ dOut = <<>> /\ dPc = "off"

FileIdle ==
    /\ tmp = EmptyDict /\ backups = EmptyDict /\ excel_states = EmptyDict
    /\ event_queue = <<>> /\ running = TRUE /\ processed = {}
    /\ mainPc = "load" /\ loadIdx = 1
    /\ wkPc = "get" /\ wkFile = NoFile /\ wkWb = NoBook /\ wkModified = FALSE

HistIdle ==
    /\ lastDiff = NoDiff /\ passNo = 0
    /\ reproc = [k \in 1..MaxSignals |-> 0] /\ nSignals = 0 /\ nEdits = 0 /\ nLocks = 0
    /\ leftOnDisk = EmptyDict /\ preHighlight = EmptyDict /\ unsignalled = {}
    /\ writtenSince = {} /\ skipped = {}

LibreIdle ==
    /\ loDoc = EmptyDict /\ loStates = EmptyDict /\ loListening = {}
    /\ loPc = "off" /\ loIdx = 1

WpsIdle ==
    /\ wpsBook = EmptyDict /\ wpsStates = EmptyDict /\ wpsCallback = FALSE
    /\ wpsPending = <<>> /\ wpsPc = "off" /\ wpsIdx = 1

\* no proxy runs
NoProc == 0

GemIdle ==
    /\ gmProcess = NoProc /\ gmRunning = FALSE /\ gmQueue = <<>>
    /\ gmProcs = <<>> /\ gmMon = <<>> /\ gmCall = <<>> /\ gmHist = <<>>

EnvIdle ==
    disk = [f \in Files |-> NotOnDisk] /\ flocked = {} /\ clock = 0 /\ ownEvents = {}

(***************************************************************************)
(* The diff applied to arbitrary pairs of snapshots                        *)
(***************************************************************************)
DiffInit ==
    /\ program = "diff"
    /\ limits = NoLimits
    /\ dOld \in Snapshots
    /\ dNew \in Snapshots
    /\ dOut = <<>>
    /\ dPc = "call"
    /\ EnvIdle /\ FileIdle /\ LibreIdle /\ WpsIdle /\ GemIdle /\ HistIdle

DiffCall ==
    /\ program = "diff"
    /\ dPc = "call"
    /\ \E evs \in LogStateDiff(file_paths[1], dOld, dNew) : dOut' = evs
    /\ dPc' = "done"
    /\ UNCHANGED <<program, limits, dOld, dNew, envVars, fileVars, libreVars, wpsVars,
                   gemVars, histVars>>

DiffNext == DiffCall

SpecDiff == DiffInit /\ [][DiffNext]_vars

(***************************************************************************)
(* demo.py: the environment of ExcelMonitor                                *)
(***************************************************************************)
FileInit ==
    /\ program = "file"
    /\ \/ /\ limits = BurstLimits
          /\ disk = [f \in Files |-> OnDisk(PlainBook)]
       \/ /\ limits \in {LockLimits, ClockLimits, StopLimits, DamageLimits}
          /\ disk \in {[f \in Files |-> OnDisk(PlainBook)],
                       [f \in Files |-> OnDisk(IF f = file_paths[1] THEN TriggerBook
                                                ELSE PlainBook)]}
       \/ /\ limits = EditLimits
          /\ disk \in {d \in [Files -> {NotOnDisk} \cup {OnDisk(wb) : wb \in InitBooks}] :
                        d[file_paths[2]] \in {NotOnDisk, OnDisk(PlainBook)}}
    /\ flocked = {}
    /\ clock = 0
    /\ ownEvents = {}
    /\ DiffIdle /\ FileIdle /\ LibreIdle /\ WpsIdle /\ GemIdle /\ HistIdle

\* the workbook after another program writes text v into a cell, or clears it (v = None)
WriteCell(wb, ws, a, v) ==
    LET sheet == IF ws \in DOMAIN wb THEN wb[ws] ELSE EmptyDict
        hl == IF a \in DOMAIN sheet THEN sheet[a].hl ELSE FALSE
    IN  DictSet(wb, ws, IF v = None THEN DictDel(sheet, a)
                        ELSE DictSet(sheet, a, Cell(v, hl)))

EditTexts == {<<" ">>, <<"h", "i">>, TRIGGER_TEXT}

\* the writes another program makes: <<sheet, address, text or None>>; any cell of
\* sheet A, and a cell of sheet B that makes the sheet appear and disappear
EditChoices ==
    ({<<"A">>} \X Addrs \X (EditTexts \cup {None}))
    \cup ({<<"B">>} \X {A2} \X {<<"h", "i">>, None})

\* another program saves a change to a workbook
ExternalEdit ==
    /\ program = "file"
    /\ nEdits < limits.edits
    /\ \E f \in {file_paths[1]}, e \in EditChoices :
        /\ Parsable(disk[f])
        /\ disk' = [disk EXCEPT ![f] = OnDisk(WriteCell(disk[f].wb, e[1], e[2], e[3]))]
        /\ disk'[f] # disk[f]
        /\ unsignalled' = unsignalled \cup {f}
        /\ writtenSince' = writtenSince \cup {f}
    /\ nEdits' = nEdits + 1
    /\ UNCHANGED <<notFile, flocked, clock, ownEvents, fileVars,
                   lastDiff, passNo, reproc, nSignals, nLocks, leftOnDisk, preHighlight,
                   skipped>>

\* another program deletes a workbook, or is part-way through rewriting it
ExternalDamage ==
    /\ program = "file"
    /\ nEdits < limits.damage
    /\ \E f \in {file_paths[1]}, left \in {NotOnDisk, OnDisk(NoBook)} :
        /\ Parsable(disk[f])
        /\ disk' = [disk EXCEPT ![f] = left]
        /\ unsignalled' = unsignalled \cup {f}
        /\ writtenSince' = writtenSince \cup {f}
    /\ nEdits' = nEdits + 1
    /\ UNCHANGED <<notFile, flocked, clock, ownEvents, fileVars,
                   lastDiff, passNo, reproc, nSignals, nLocks, leftOnDisk, preHighlight,
                   skipped>>

\* another program takes or drops an exclusive flock on a file
ExternalLock ==
    /\ program = "file"
    /\ nLocks < limits.locks
    /\ \E f \in Files :
        /\ disk[f].exists
        /\ flocked' = IF f \in flocked THEN flocked \ {f} ELSE flocked \cup {f}
    /\ nLocks' = nLocks + 1
    /\ UNCHANGED <<notFile, disk, clock, ownEvents, fileVars,
                   lastDiff, passNo, reproc, nSignals, nEdits, leftOnDisk, preHighlight,
                   unsignalled, writtenSince, skipped>>

Tick ==
    /\ program = "file"
    /\ clock < limits.ticks
    /\ clock' = clock + 1
    /\ UNCHANGED <<notFile, disk, flocked, ownEvents, fileVars, histVars>>

(***************************************************************************)
(* ExcelMonitor.start_monitoring                                           *)
(***************************************************************************)
\* the loop that loads the initial states, one file per step
LoadInitialState ==
    /\ program = "file"
    /\ mainPc = "load"
    /\ LET f == file_paths[loadIdx]
       IN  IF ~disk[f].exists
           THEN /\ mainPc' = "returned"
                /\ UNCHANGED <<excel_states, loadIdx, writtenSince>>
           ELSE /\ excel_states' = StoreState(excel_states, f, GetExcelState(disk[f]))
                /\ loadIdx' = loadIdx + 1
                /\ mainPc' = IF loadIdx = Len(file_paths) THEN "run" ELSE "load"
                /\ writtenSince' = writtenSince \ {f}
    /\ UNCHANGED <<notFile, envVars, tmp, backups, event_queue, running,
                   processed, wkPc, wkFile, wkWb, wkModified,
                   lastDiff, countVars, leftOnDisk, preHighlight, unsignalled, skipped>>

\* the event thread is started once the loop is over
Started == mainPc \in {"run", "stopped"}

\* the event thread is a daemon thread: it lives as long as the process
Alive == mainPc # "exited"

\* KeyboardInterrupt in the event loop: stop(), and start_monitoring returns
Stop ==
    /\ program = "file"
    /\ limits.stop
    /\ mainPc = "run"
    /\ running' = FALSE
    /\ mainPc' = "stopped"
    /\ UNCHANGED <<notFile, envVars, tmp, backups, excel_states, event_queue,
                   processed, loadIdx, wkPc, wkFile, wkWb, wkModified, histVars>>

\* start_monitoring has returned: the script ends, and its daemon thread with it
Exit ==
    /\ program = "file"
    /\ mainPc \in {"stopped", "returned"}
    /\ mainPc' = "exited"
    /\ UNCHANGED <<notFile, envVars, tmp, backups, excel_states, event_queue,
                   running, processed, loadIdx, wkPc, wkFile, wkWb, wkModified, histVars>>

Qualifies(path, type_names) ==
    path \in Watched /\ ("IN_MODIFY" \in type_names \/ "IN_CLOSE_WRITE" \in type_names)

\* one event of notifier.event_gen()
Notify ==
    /\ program = "file"
    /\ mainPc = "run" /\ running
    /\ \E path \in Files, type_names \in (SUBSET EventTypes) \ {{}} :
        IF Qualifies(path, type_names)
        THEN /\ Len(event_queue) < MaxQueue
             /\ nSignals < limits.signals
             /\ event_queue' = Append(event_queue,
                    [path |-> path,
                     during |-> IF wkPc # "get" /\ wkFile = path THEN passNo ELSE 0])
             /\ nSignals' = nSignals + 1
             /\ unsignalled' = unsignalled \ {path}
        ELSE UNCHANGED <<event_queue, nSignals, unsignalled, writtenSince>>
    /\ UNCHANGED <<notFile, envVars, tmp, backups, excel_states, running,
                   processed, mainPc, loadIdx, wkPc, wkFile, wkWb, wkModified,
                   lastDiff, passNo, reproc, nEdits, nLocks, leftOnDisk, preHighlight,
                   writtenSince, skipped>>

\* event_gen() delivers an event that the monitor's own probe or save raised on a
\* watched file (IN_MODIFY or IN_CLOSE_WRITE: it qualifies)
NotifyOwn ==
    /\ program = "file"
    /\ limits.own
    /\ mainPc = "run" /\ running
    /\ \E path \in ownEvents :
        /\ Qualifies(path, {"IN_CLOSE_WRITE"})
        /\ Len(event_queue) < MaxQueue
        /\ event_queue' = Append(event_queue, [path |-> path, during |-> 0])
        /\ ownEvents' = ownEvents \ {path}
    /\ UNCHANGED <<notFile, disk, flocked, clock, tmp, backups, excel_states, running,
                   processed, mainPc, loadIdx, wkPc, wkFile, wkWb, wkModified, histVars>>

(***************************************************************************)
(* ExcelMonitor._process_events and process_excel, one step per statement  *)
(* that reads or writes the file system or the shared state                *)
(***************************************************************************)
workerVars == <<wkPc, wkFile, wkWb, wkModified>>

\* passNo counts the passes up to the number of signals of other programs that the
\* run allows; the passes started by the monitor's own events are not told apart
CountPass(n) == IF n < limits.signals THEN n + 1 ELSE n

\* event_queue.get(timeout=1) delivers a path
WorkerGet ==
    /\ program = "file"
    /\ Started /\ Alive /\ running
    /\ wkPc = "get"
    /\ event_queue # <<>>
    /\ LET e == Head(event_queue)
       IN  /\ event_queue' = Tail(event_queue)
           /\ wkFile' = e.path
           /\ IF e.path \notin processed
              THEN /\ wkPc' = "probe"
                   /\ passNo' = CountPass(passNo)
                   /\ reproc' = IF e.during = 0 THEN reproc
                                ELSE [reproc EXCEPT ![e.during] = @ + 1]
              ELSE /\ wkPc' = "drain"
                   /\ UNCHANGED <<passNo, reproc>>
    /\ UNCHANGED <<notFile, envVars, tmp, backups, excel_states, running,
                   processed, mainPc, loadIdx, wkWb, wkModified, lastDiff,
                   nSignals, nEdits, nLocks, leftOnDisk, preHighlight, unsignalled,
                   writtenSince, skipped>>

\* event_queue.get(timeout=1) raises Empty
WorkerTimeout ==
    /\ program = "file"
    /\ Started /\ Alive /\ running
    /\ wkPc = "get"
    /\ event_queue = <<>>
    /\ processed' = {}
    /\ UNCHANGED <<notFile, envVars, tmp, backups, excel_states, event_queue,
                   running, mainPc, loadIdx, workerVars, histVars>>

\* "while self.running" is false: the loop and the thread end
WorkerExit ==
    /\ program = "file"
    /\ Started /\ Alive /\ ~running
    /\ wkPc = "get"
    /\ wkPc' = "done"
    /\ UNCHANGED <<notFile, envVars, tmp, backups, excel_states, event_queue,
                   running, processed, mainPc, loadIdx, wkFile, wkWb, wkModified,
                   histVars>>

\* is_file_open: the flock probe
IsFileOpen(f) == disk[f].exists /\ f \in flocked

\* is_file_open opens an existing file with open(filepath, 'a+'); closing a file
\* that was opened for writing raises IN_CLOSE_WRITE on it
ProbeEvents(f) == IF disk[f].exists THEN {f} ELSE {}

\* process_excel up to the lock: the suffix test (every watched path ends in .xlsx)
\* and the probe
Probe ==
    /\ program = "file"
    /\ Alive
    /\ wkPc = "probe"
    /\ ownEvents' = ownEvents \cup ProbeEvents(wkFile)
    /\ IF IsFileOpen(wkFile)
       THEN /\ wkPc' = "drain"
            /\ processed' = processed \cup {wkFile}
            /\ skipped' = skipped \cup {wkFile}
       ELSE /\ wkPc' = "capture"
            /\ UNCHANGED <<processed, skipped>>
    /\ UNCHANGED <<notFile, disk, flocked, clock, tmp, backups, excel_states,
                   event_queue, running, mainPc, loadIdx, wkFile, wkWb, wkModified,
                   lastDiff, countVars, leftOnDisk, preHighlight, unsignalled,
                   writtenSince>>

\* the lock is taken after the capture
LockHeldLate ==
    wkPc \in {"copy", "scan", "backup", "save", "saving", "restate", "finish", "except"}

\* "with self.lock:": the statements of process_excel that run holding the lock
LockHeld ==
    wkPc \in {"capture", "copy", "scan", "backup", "save", "saving", "restate", "finish",
              "except"}

\* "self.excel_states.get(file_path, {})"
StoredState(f) == DictGet(excel_states, f)

OldState(f) == IF f \in DOMAIN excel_states THEN excel_states[f] ELSE EmptyDict

\* new_state, old_state, _log_state_diff, excel_states[file_path] = new_state
Capture ==
    /\ program = "file"
    /\ Alive
    /\ wkPc = "capture"
    /\ LET new_state == GetExcelState(disk[wkFile])
           old_state == OldState(wkFile)
       IN  /\ \E evs \in LogStateDiff(wkFile, old_state, new_state) :
                lastDiff' = [file |-> wkFile, old |-> old_state, new |-> new_state,
                             events |-> evs,
                             hadBaseline |-> wkFile \in DOMAIN excel_states,
                             n |-> passNo]
           /\ excel_states' = StoreState(excel_states, wkFile, new_state)
    /\ writtenSince' = writtenSince \ {wkFile}
    /\ skipped' = skipped \ {wkFile}
    /\ wkPc' = "copy"
    /\ UNCHANGED <<notFile, envVars, tmp, backups, event_queue, running,
                   processed, mainPc, loadIdx, wkFile, wkWb, wkModified,
                   countVars, leftOnDisk, preHighlight, unsignalled>>

\* shutil.copy2(file_path, temp_path); a missing file raises into the handler
CopyTmp ==
    /\ program = "file"
    /\ Alive
    /\ wkPc = "copy"
    /\ IF disk[wkFile].exists
       THEN /\ tmp' = DictSet(tmp, wkFile, disk[wkFile].wb)
            /\ wkPc' = "scan"
            /\ UNCHANGED processed
       ELSE /\ wkPc' = "drain"
            /\ processed' = processed \cup {wkFile}
            /\ UNCHANGED tmp
    /\ UNCHANGED <<notFile, envVars, backups, excel_states, event_queue,
                   running, mainPc, loadIdx, wkFile, wkWb, wkModified, histVars>>

\* the copy is left where it is
RemoveTmpNever(files, f) == files

\* "if os.path.exists(temp_path): os.remove(temp_path)"
RemoveTmp(files, f) == DictDel(files, f)

\* load_workbook(temp_path), which raises into the handler on a file that is no
\* workbook, and the scan for TRIGGER_TEXT
Scan ==
    /\ program = "file"
    /\ Alive
    /\ wkPc = "scan"
    /\ IF tmp[wkFile] = NoBook
       THEN /\ wkPc' = "except"
            /\ UNCHANGED <<wkWb, wkModified>>
       ELSE /\ wkWb' = Highlight(tmp[wkFile])
            /\ wkModified' = Modified(tmp[wkFile])
            /\ wkPc' = IF Modified(tmp[wkFile]) THEN "backup" ELSE "finish"
    /\ UNCHANGED <<notFile, envVars, tmp, backups, excel_states, event_queue,
                   running, processed, mainPc, loadIdx, wkFile, histVars>>

\* the handler of process_excel removes the copy; back in _process_events:
\* processed.add(file_path)
Except ==
    /\ program = "file"
    /\ Alive
    /\ wkPc = "except"
    /\ tmp' = RemoveTmp(tmp, wkFile)
    /\ processed' = processed \cup {wkFile}
    /\ wkPc' = "drain"
    /\ UNCHANGED <<notFile, envVars, backups, excel_states, event_queue,
                   running, mainPc, loadIdx, wkFile, wkWb, wkModified, histVars>>

\* datetime.now().strftime('%Y%m%d%H%M%S')
Stamp == clock

\* shutil.copy2(file_path, backup_path)
Backup ==
    /\ program = "file"
    /\ Alive
    /\ wkPc = "backup"
    /\ backups' = DictSet(backups, <<wkFile, Stamp>>, disk[wkFile].wb)
    /\ preHighlight' = IF <<wkFile, Stamp>> \in DOMAIN backups THEN preHighlight
                       ELSE DictSet(preHighlight, <<wkFile, Stamp>>, disk[wkFile].wb)
    /\ wkPc' = "save"
    /\ UNCHANGED <<notFile, envVars, tmp, excel_states, event_queue, running,
                   processed, mainPc, loadIdx, wkFile, wkWb, wkModified,
                   lastDiff, countVars, leftOnDisk, unsignalled, writtenSince, skipped>>

\* wb.save(file_path) opens the file itself for writing: its old content is gone
\* and the new archive is not complete yet (IN_MODIFY)
SaveTruncate ==
    /\ program = "file"
    /\ Alive
    /\ wkPc = "save"
    /\ disk' = [disk EXCEPT ![wkFile] = OnDisk(NoBook)]
    /\ ownEvents' = ownEvents \cup {wkFile}
    /\ wkPc' = "saving"
    /\ UNCHANGED <<notFile, flocked, clock, tmp, backups, excel_states,
                   event_queue, running, processed, mainPc, loadIdx, wkFile, wkWb,
                   wkModified, histVars>>

\* wb.save(file_path) has written the archive and closed it (IN_CLOSE_WRITE)
Save ==
    /\ program = "file"
    /\ Alive
    /\ wkPc = "saving"
    /\ disk' = [disk EXCEPT ![wkFile] = OnDisk(wkWb)]
    /\ ownEvents' = ownEvents \cup {wkFile}
    /\ wkPc' = "restate"
    /\ UNCHANGED <<notFile, flocked, clock, tmp, backups, excel_states,
                   event_queue, running, processed, mainPc, loadIdx, wkFile, wkWb,
                   wkModified, histVars>>

\* self.excel_states[file_path] = self._get_excel_state(file_path)
Recapture ==
    /\ program = "file"
    /\ Alive
    /\ wkPc = "restate"
    /\ excel_states' = StoreState(excel_states, wkFile, GetExcelState(disk[wkFile]))
    /\ writtenSince' = writtenSince \ {wkFile}
    /\ wkPc' = "finish"
    /\ UNCHANGED <<notFile, envVars, tmp, backups, event_queue, running,
                   processed, mainPc, loadIdx, wkFile, wkWb, wkModified,
                   lastDiff, countVars, leftOnDisk, preHighlight, unsignalled, skipped>>

\* wb.close(), os.remove(temp_path); back in _process_events: processed.add(file_path)
Finish ==
    /\ program = "file"
    /\ Alive
    /\ wkPc = "finish"
    /\ tmp' = RemoveTmp(tmp, wkFile)
    /\ wkWb' = NoBook
    /\ processed' = processed \cup {wkFile}
    /\ wkPc' = "drain"
    /\ leftOnDisk' = DictSet(leftOnDisk, wkFile, disk[wkFile].wb)
    /\ UNCHANGED <<notFile, envVars, backups, excel_states, event_queue,
                   running, mainPc, loadIdx, wkFile, wkModified,
                   lastDiff, countVars, preHighlight, unsignalled, writtenSince, skipped>>

\* one turn of "while not self.event_queue.empty()" that removes an entry
DrainOne ==
    /\ program = "file"
    /\ Alive
    /\ wkPc = "drain"
    /\ event_queue # <<>>
    /\ Head(event_queue).path = wkFile
    /\ event_queue' = Tail(event_queue)
    /\ UNCHANGED <<notFile, envVars, tmp, backups, excel_states, running,
                   processed, mainPc, loadIdx, workerVars, histVars>>

\* the loop ends; processed.discard(file_path)
DrainDone ==
    /\ program = "file"
    /\ Alive
    /\ wkPc = "drain"
    /\ IF event_queue = <<>> THEN TRUE ELSE Head(event_queue).path # wkFile
    /\ processed' = processed \ {wkFile}
    /\ wkPc' = "get"
    /\ wkFile' = NoFile
    /\ wkModified' = FALSE
    /\ UNCHANGED <<notFile, envVars, tmp, backups, excel_states, event_queue,
                   running, mainPc, loadIdx, wkWb, histVars>>

FileNext ==
    \/ ExternalEdit \/ ExternalDamage \/ ExternalLock \/ Tick
    \/ LoadInitialState \/ Notify \/ Stop \/ Exit
    \/ WorkerGet \/ WorkerTimeout \/ WorkerExit
    \/ Probe \/ Capture \/ CopyTmp \/ Scan \/ Except
    \/ Backup \/ SaveTruncate \/ Save \/ Recapture \/ Finish \/ DrainOne \/ DrainDone

SpecFile == FileInit /\ [][FileNext]_vars

(***************************************************************************)
(* demo.py with the events of its own file operations delivered            *)
(***************************************************************************)
OwnInit ==
    /\ program = "file"
    /\ limits = OwnLimits
    /\ disk \in {[f \in Files |-> OnDisk(PlainBook)],
                 [f \in Files |-> OnDisk(IF f = file_paths[1] THEN TriggerBook
                                          ELSE PlainBook)]}
    /\ flocked = {}
    /\ clock = 0
    /\ ownEvents = {}
    /\ DiffIdle /\ FileIdle /\ LibreIdle /\ WpsIdle /\ GemIdle /\ HistIdle

\* the steps of the event thread
WorkerNext ==
    \/ WorkerGet \/ WorkerTimeout
    \/ Probe \/ Capture \/ CopyTmp \/ Scan
    \/ Backup \/ SaveTruncate \/ Save \/ Recapture \/ Finish \/ DrainOne \/ DrainDone

OwnNext ==
    \/ ExternalEdit \/ ExternalLock
    \/ LoadInitialState \/ Notify \/ NotifyOwn
    \/ WorkerNext

\* both threads keep running: the event thread takes its next step, and the main
\* thread's event_gen() loop reads the events the kernel holds
SpecOwn ==
    /\ OwnInit /\ [][OwnNext]_vars
    /\ WF_vars(WorkerNext) /\ WF_vars(NotifyOwn) /\ WF_vars(LoadInitialState)

(***************************************************************************)
(* libre_monitor.py: RealTimeMonitor over a document's sheets; a sheet is  *)
(* address -> cell.String ("" for an empty cell)                           *)
(***************************************************************************)
LibreFile == "test.xlsx"

LibreSheets == <<<<"A">>, <<"B">>>>

BlankSheet == [a \in Addrs |-> <<>>]

notLibre == <<program, limits, diffVars, envVars, fileVars, wpsVars, gemVars>>

LibreInit ==
    /\ program = "libre"
    /\ limits = EditLimits
    /\ loDoc \in [{LibreSheets[i] : i \in DOMAIN LibreSheets} ->
                    {BlankSheet, [BlankSheet EXCEPT ![A10] = <<"h", "i">>]}]
    /\ loStates = EmptyDict
    /\ loListening = {}
    /\ loPc = "setup"
    /\ loIdx = 1
    /\ DiffIdle /\ EnvIdle /\ FileIdle /\ WpsIdle /\ GemIdle /\ HistIdle

\* "if cell.String:"
LibreKeep(text) == text # <<>>

\* RealTimeMonitor.get_sheet_state (libre_monitor.py)
LibreGetSheetState(sheet) ==
    [a \in {c \in DOMAIN sheet : LibreKeep(sheet[c])} |-> sheet[a]]

\* the loop body of compare_and_log, for one cell
LibreCellDiff(sheet_name, old_state, new_state, cell_addr) ==
    LET old_value == DictGet(old_state, cell_addr)
        new_value == DictGet(new_state, cell_addr)
    IN  IF old_value # new_value
        THEN IF old_value = None
             THEN <<CellEvent("CellCreated", LibreFile, sheet_name, cell_addr, None,
             new_value)>>
             ELSE IF new_value = None
             THEN <<CellEvent("CellDeleted", LibreFile, sheet_name, cell_addr, old_value,
             None)>>
             ELSE <<CellEvent("CellUpdated", LibreFile, sheet_name, cell_addr, old_value,
                              new_value)>>
        ELSE <<>>

RECURSIVE LibreCellLoop(_, _, _, _)
LibreCellLoop(sheet_name, old_state, new_state, cells) ==
    IF cells = <<>> THEN <<>>
    ELSE LibreCellDiff(sheet_name, old_state, new_state, Head(cells))
         \o LibreCellLoop(sheet_name, old_state, new_state, Tail(cells))

\* what compare_and_log logs: "for cell_addr in sorted(list(all_cells))"
LibreCompare(sheet_name, old_state, new_state) ==
    LibreCellLoop(sheet_name, old_state, new_state,
                  Sorted((DOMAIN old_state) \cup (DOMAIN new_state)))

\* run(): the initial state of one sheet is captured and its listener attached
LibreSetup ==
    /\ program = "libre"
    /\ loPc = "setup"
    /\ LET sheet_name == LibreSheets[loIdx]
       IN  /\ loStates' = DictSet(loStates, sheet_name, LibreGetSheetState(loDoc[sheet_name]))
           /\ loListening' = loListening \cup {sheet_name}
    /\ loIdx' = loIdx + 1
    /\ loPc' = IF loIdx = Len(LibreSheets) THEN "active" ELSE "setup"
    /\ UNCHANGED <<notLibre, loDoc, histVars>>

\* the user edits a cell in LibreOffice
LibreEdit ==
    /\ program = "libre"
    /\ nEdits < limits.edits
    /\ \E sheet_name \in DOMAIN loDoc, a \in Addrs, text \in Texts :
        /\ loDoc[sheet_name][a] # text
        /\ loDoc' = [loDoc EXCEPT ![sheet_name][a] = text]
    /\ nEdits' = nEdits + 1
    /\ UNCHANGED <<notLibre, loStates, loListening, loPc, loIdx,
                   lastDiff, passNo, reproc, nSignals, nLocks, leftOnDisk, preHighlight,
                   unsignalled, writtenSince, skipped>>

\* SheetModifyListener.modified -> RealTimeMonitor.compare_and_log(sheet_name)
LibreModified ==
    /\ program = "libre"
    /\ nSignals < limits.signals
    /\ \E sheet_name \in loListening :
        LET new_state == LibreGetSheetState(loDoc[sheet_name])
            old_state == IF sheet_name \in DOMAIN loStates THEN loStates[sheet_name]
                         ELSE EmptyDict
        IN  /\ lastDiff' = [file |-> LibreFile, old |-> (sheet_name :> old_state),
                            new |-> (sheet_name :> new_state),
                            events |-> LibreCompare(sheet_name, old_state, new_state),
                            hadBaseline |-> sheet_name \in DOMAIN loStates,
                            n |-> nSignals + 1]
            /\ loStates' = DictSet(loStates, sheet_name, new_state)
    /\ nSignals' = nSignals + 1
    /\ UNCHANGED <<notLibre, loDoc, loListening, loPc, loIdx, passNo, reproc, nEdits,
                   nLocks, leftOnDisk, preHighlight, unsignalled, writtenSince, skipped>>

LibreNext == LibreSetup \/ LibreEdit \/ LibreModified

SpecLibre == LibreInit /\ [][LibreNext]_vars

(***************************************************************************)
(* wps_monitor_win.py: RealTimeMonitor over a workbook's sheets; a sheet   *)
(* is <<row, column>> -> cell.Value (None for an empty cell)               *)
(***************************************************************************)
WpsFile == "test.xlsx"

WpsSheets == <<<<"A">>, <<"B">>>>

WpsRows == {1, 2}

WpsCols == {1, 2}

WpsGrid == WpsRows \X WpsCols

\* cell.Address, written without the $ signs
WpsAddress(rc) == <<IF rc[2] = 1 THEN "A" ELSE "B", IF rc[1] = 1 THEN "1" ELSE "2">>

\* the ranges a change event can carry, cells in row-major order
WpsRanges == {<<rc>> : rc \in WpsGrid} \cup {<<<<1, 1>>, <<1, 2>>>>}

WpsBlankSheet == [rc \in WpsGrid |-> None]

\* the sheets of the workbook that is opened: empty, a value in A1, or values in
\* B1 and B2 only
WpsInitSheets ==
    {WpsBlankSheet,
     [WpsBlankSheet EXCEPT ![<<1, 1>>] = <<"h", "i">>],
     [WpsBlankSheet EXCEPT ![<<1, 2>>] = <<"h", "i">>, ![<<2, 2>>] = <<"h", "i">>]}

notWps == <<program, limits, diffVars, envVars, fileVars, libreVars, gemVars>>

WpsInit ==
    /\ program = "wps"
    /\ limits = EditLimits
    /\ wpsBook \in [{WpsSheets[i] : i \in DOMAIN WpsSheets} -> WpsInitSheets]
    /\ wpsStates = EmptyDict
    /\ wpsCallback = FALSE
    /\ wpsPending = <<>>
    /\ wpsPc = "start"
    /\ wpsIdx = 1
    /\ DiffIdle /\ EnvIdle /\ FileIdle /\ LibreIdle /\ GemIdle /\ HistIdle

Max(S) == CHOOSE x \in S : \A y \in S : y <= x

\* sheet.Cells(sheet.Rows.Count, 1).End(xlUp).Row
WpsLastRow(sheet) ==
    LET used == {r \in WpsRows : sheet[<<r, 1>>] # None}
    IN  IF used = {} THEN 1 ELSE Max(used)

\* sheet.Cells(1, sheet.Columns.Count).End(xlToLeft).Column
WpsLastCol(sheet) ==
    LET used == {c \in WpsCols : sheet[<<1, c>>] # None}
    IN  IF used = {} THEN 1 ELSE Max(used)

\* RealTimeMonitor.get_sheet_state (wps_monitor_win.py)
WpsGetSheetState(sheet) ==
    LET cells == {rc \in WpsGrid : /\ rc[1] <= WpsLastRow(sheet)
                                   /\ rc[2] <= WpsLastCol(sheet)
                                   /\ sheet[rc] # None}
    IN  [a \in {WpsAddress(rc) : rc \in cells} |->
            sheet[CHOOSE rc \in cells : WpsAddress(rc) = a]]

\* the loop body of compare_and_log, for one cell of the target range
WpsCellDiff(sheet_name, old_state, sheet, rc) ==
    LET cell_addr == WpsAddress(rc)
        old_value == DictGet(old_state, cell_addr)
        new_value == sheet[rc]
    IN  IF old_value # new_value
        THEN IF old_value = None /\ new_value # None
             THEN <<CellEvent("CellCreated", WpsFile, sheet_name, cell_addr, None, new_value)>>
             ELSE IF new_value = None /\ old_value # None
             THEN <<CellEvent("CellDeleted", WpsFile, sheet_name, cell_addr, old_value, None)>>
             ELSE <<CellEvent("CellUpdated", WpsFile, sheet_name, cell_addr, old_value,
                              new_value)>>
        ELSE <<>>

RECURSIVE WpsCompare(_, _, _, _)
WpsCompare(sheet_name, old_state, sheet, target_range) ==
    IF target_range = <<>> THEN <<>>
    ELSE WpsCellDiff(sheet_name, old_state, sheet, Head(target_range))
         \o WpsCompare(sheet_name, old_state, sheet, Tail(target_range))

\* run(): "self.wps_app.Events.monitor_callback = self.compare_and_log"
WpsRegister ==
    /\ program = "wps"
    /\ wpsPc = "start"
    /\ wpsCallback' = TRUE
    /\ wpsPc' = "setup"
    /\ UNCHANGED <<notWps, wpsBook, wpsStates, wpsPending, wpsIdx, histVars>>

\* run(): the initial state of one sheet is captured
WpsSetup ==
    /\ program = "wps"
    /\ wpsPc = "setup"
    /\ LET sheet_name == WpsSheets[wpsIdx]
       IN  wpsStates' = DictSet(wpsStates, sheet_name, WpsGetSheetState(wpsBook[sheet_name]))
    /\ wpsIdx' = wpsIdx + 1
    /\ wpsPc' = IF wpsIdx = Len(WpsSheets) THEN "pump" ELSE "setup"
    /\ UNCHANGED <<notWps, wpsBook, wpsCallback, wpsPending, histVars>>

\* the user changes a range in the WPS window; WPS queues the SheetChange event
WpsEdit ==
    /\ program = "wps"
    /\ nEdits < limits.edits
    /\ \E sheet_name \in DOMAIN wpsBook, target \in WpsRanges, v \in Texts \cup {None} :
        LET cells == {target[i] : i \in DOMAIN target}
        IN  /\ \E rc \in cells : wpsBook[sheet_name][rc] # v
            /\ wpsBook' = [wpsBook EXCEPT ![sheet_name] =
                              [rc \in WpsGrid |-> IF rc \in cells THEN v ELSE @[rc]]]
            /\ wpsPending' = Append(wpsPending, [sheet |-> sheet_name, target |-> target])
    /\ nEdits' = nEdits + 1
    /\ UNCHANGED <<notWps, wpsStates, wpsCallback, wpsPc, wpsIdx,
                   lastDiff, passNo, reproc, nSignals, nLocks, leftOnDisk, preHighlight,
                   unsignalled, writtenSince, skipped>>

\* WpsEventHandler.OnSheetChange -> RealTimeMonitor.compare_and_log(sheet_name, target)
WpsOnSheetChange ==
    /\ program = "wps"
    /\ wpsPending # <<>>
    /\ wpsPending' = Tail(wpsPending)
    /\ LET sheet_name == Head(wpsPending).sheet
           sheet == wpsBook[sheet_name]
           new_state == WpsGetSheetState(sheet)
           old_state == IF sheet_name \in DOMAIN wpsStates THEN wpsStates[sheet_name]
                        ELSE EmptyDict
       IN  IF wpsCallback
           THEN /\ lastDiff' = [file |-> WpsFile, old |-> (sheet_name :> old_state),
                                new |-> (sheet_name :> new_state),
                                events |-> WpsCompare(sheet_name, old_state, sheet,
                                                      Head(wpsPending).target),
                                hadBaseline |-> sheet_name \in DOMAIN wpsStates,
                                n |-> nSignals + 1]
                /\ wpsStates' = DictSet(wpsStates, sheet_name, new_state)
           ELSE UNCHANGED <<lastDiff, wpsStates>>
    /\ nSignals' = nSignals + 1
    /\ UNCHANGED <<notWps, wpsBook, wpsCallback, wpsPc, wpsIdx, passNo, reproc, nEdits,
                   nLocks, leftOnDisk, preHighlight, unsignalled, writtenSince, skipped>>

WpsNext == WpsRegister \/ WpsSetup \/ WpsEdit \/ WpsOnSheetChange

SpecWps == WpsInit /\ [][WpsNext]_vars

(***************************************************************************)
(* The watchers: a run is a run of one of the three scripts                *)
(***************************************************************************)
Init == FileInit \/ LibreInit \/ WpsInit

Next == FileNext \/ LibreNext \/ WpsNext

Spec == Init /\ [][Next]_vars

(***************************************************************************)
(* gemini_proxy: one GeminiProcess shared by the requests of app.py, which *)
(* Flask serves on a thread each.  A line of output carries the prompt it  *)
(* answers; its text is one of the kinds of line the code tells apart.     *)
(***************************************************************************)
\* processes started in one run: the one of __init__ and those of restart()
MaxProcs == 2

MaxPrompts == 2

\* processes that die by themselves
MaxDeaths == 2

\* calls whose wait of 120 seconds runs out
MaxTimeouts == 1

Pids == 1..MaxProcs

\* a request to /ask for each prompt, numbered in the order of arrival, and one to
\* /config
Askers == 1..MaxPrompts

ConfigCaller == 0

Callers == {ConfigCaller} \cup Askers

\* what the tool prints when it starts
BannerLine == [prompt |-> 0, text |-> "Data collection is disabled"]

\* the reply to prompt k: the "Output:" line, which is blank once the marker is cut
\* off, a line of text
HeaderLine(k) == [prompt |-> k, text |-> "Output:"]

ReplyLine(k) == [prompt |-> k, text |-> "reply"]

\* and the "Input:" line with which the tool asks for the next prompt
InputLine(k) == [prompt |-> k, text |-> "Input:"]

\* what send_prompt_stream yields when nothing arrived in time, or on an exception
SorryChunk(k) == [prompt |-> k, text |-> "Sorry, the response timed out."]

ErrorChunk(k) == [prompt |-> k, text |-> "Error:"]

Unborn == [state |-> "unborn", stdin |-> <<>>, stdout |-> <<>>]

\* subprocess.Popen(cmd, stdin=PIPE, stdout=PIPE, ...)
NewProc == [state |-> "alive", stdin |-> <<>>, stdout |-> <<BannerLine>>]

NoThread == [pc |-> "unborn", of |-> NoProc]

\* threading.Thread(target=self._monitor_output).start()
NewThread == [pc |-> "check", of |-> NoProc]

NoCall == [pc |-> "idle", resp |-> <<>>, sawAlive |-> FALSE, restarted |-> FALSE]

\* what happens around the proxy in a run: the tool dies by itself, or a wait runs
\* out, or the configuration is updated while prompts are served, or prompts arrive
\* while another prompt is being served
DeathRun == [deaths |-> MaxDeaths, timeouts |-> 0, config |-> FALSE, parallel |-> FALSE]

TimeoutRun == [deaths |-> 0, timeouts |-> MaxTimeouts, config |-> FALSE, parallel |-> FALSE]

ConfigRun == [deaths |-> 0, timeouts |-> 0, config |-> TRUE, parallel |-> FALSE]

ParallelRun == [deaths |-> 0, timeouts |-> 0, config |-> FALSE, parallel |-> TRUE]

notGem == <<program, limits, diffVars, envVars, fileVars, libreVars, wpsVars, histVars>>

\* the state after "gemini = GeminiProcess(...)" in app.py
GemInit ==
    /\ program = "gemini"
    /\ limits \in {DeathRun, TimeoutRun, ConfigRun, ParallelRun}
    /\ gmProcess = 1
    /\ gmRunning = TRUE
    /\ gmQueue = <<>>
    /\ gmProcs = [p \in Pids |-> IF p = 1 THEN NewProc ELSE Unborn]
    /\ gmMon = [t \in Pids |-> IF t = 1 THEN NewThread ELSE NoThread]
    /\ gmCall = [c \in Callers |-> NoCall]
    /\ gmHist = [overlap |-> FALSE, written |-> {}, deaths |-> 0, timeouts |-> 0]
    /\ DiffIdle /\ EnvIdle /\ FileIdle /\ LibreIdle /\ WpsIdle /\ HistIdle

\* GeminiProcess.is_process_alive
IsProcessAlive == gmProcess # NoProc /\ gmProcs[gmProcess].state = "alive"

InProgress(c) == gmCall[c].pc \notin {"idle", "done", "failed"}

\* the callers inside restart() that have not started their process yet
Restarting == {c \in Callers : gmCall[c].pc \in {"r_stop", "r_term", "r_start"}}

NextPid == Cardinality({p \in Pids : gmProcs[p].state # "unborn"}) + 1

\* a restart can begin while the run has a process left for it
CanRestart == NextPid + Cardinality(Restarting) <= MaxProcs

\* ask(): a prompt arrives and send_prompt calls send_prompt_stream
Arrive(c) ==
    /\ gmCall[c].pc = "idle"
    /\ \A d \in Askers : d < c => gmCall[d].pc # "idle"
    /\ limits.parallel \/ \A d \in Askers \ {c} : ~InProgress(d)
    /\ gmCall' = [gmCall EXCEPT ![c].pc = "check"]
    /\ gmHist' = [gmHist EXCEPT !.overlap = @ \/ \E d \in Callers \ {c} : InProgress(d)]
    /\ UNCHANGED <<notGem, gmProcess, gmRunning, gmQueue, gmProcs, gmMon>>

\* "if not self.is_process_alive():" at the top of send_prompt_stream
CheckAlive(c) ==
    /\ gmCall[c].pc = "check"
    /\ IF IsProcessAlive
       THEN gmCall' = [gmCall EXCEPT ![c].pc = "write", ![c].sawAlive = TRUE]
       ELSE /\ CanRestart
            /\ gmCall' = [gmCall EXCEPT ![c].pc = "r_stop", ![c].sawAlive = FALSE,
                                        ![c].restarted = TRUE]
    /\ UNCHANGED <<notGem, gmProcess, gmRunning, gmQueue, gmProcs, gmMon, gmHist>>

\* update_config() of app.py: GeminiProcess.update_config sets the fields and restarts
UpdateConfig ==
    /\ gmCall[ConfigCaller].pc = "idle"
    /\ limits.config
    /\ CanRestart
    /\ gmCall' = [gmCall EXCEPT ![ConfigCaller].pc = "r_stop"]
    /\ gmHist' = [gmHist EXCEPT !.overlap = @ \/ \E d \in Askers : InProgress(d)]
    /\ UNCHANGED <<notGem, gmProcess, gmRunning, gmQueue, gmProcs, gmMon>>

\* restart(): "self.running = False"
RestartStop(c) ==
    /\ gmCall[c].pc = "r_stop"
    /\ gmRunning' = FALSE
    /\ gmCall' = [gmCall EXCEPT ![c].pc = "r_term"]
    /\ UNCHANGED <<notGem, gmProcess, gmQueue, gmProcs, gmMon, gmHist>>

\* restart(): terminate() and wait(), or kill(); "self.process = None"
RestartTerminate(c) ==
    /\ gmCall[c].pc = "r_term"
    /\ gmProcs' = IF gmProcess = NoProc THEN gmProcs
                  ELSE [gmProcs EXCEPT ![gmProcess].state = "dead",
                                       ![gmProcess].stdin = <<>>]
    /\ gmProcess' = NoProc
    /\ gmCall' = [gmCall EXCEPT ![c].pc = "r_start"]
    /\ UNCHANGED <<notGem, gmRunning, gmQueue, gmMon, gmHist>>

\* start_process(): Popen, "self.running = True", the monitor thread is started;
\* or Popen raises and start_process raises in its turn
StartProcess(c) ==
    /\ gmCall[c].pc = "r_start"
    /\ NextPid <= MaxProcs
    /\ \/ /\ gmProcs' = [gmProcs EXCEPT ![NextPid] = NewProc]
          /\ gmProcess' = NextPid
          /\ gmRunning' = TRUE
          /\ gmMon' = [gmMon EXCEPT ![NextPid] = NewThread]
          /\ gmCall' = [gmCall EXCEPT ![c].pc = "r_sleep"]
       \/ /\ gmProcess' = NoProc
          /\ gmCall' = [gmCall EXCEPT ![c].pc = "failed"]
          /\ UNCHANGED <<gmProcs, gmRunning, gmMon>>
    /\ UNCHANGED <<notGem, gmQueue, gmHist>>

\* start_process(): time.sleep(3) is over and restart() returns
RestartDone(c) ==
    /\ gmCall[c].pc = "r_sleep"
    /\ gmCall' = [gmCall EXCEPT ![c].pc = IF c = ConfigCaller THEN "done" ELSE "recheck"]
    /\ UNCHANGED <<notGem, gmProcess, gmRunning, gmQueue, gmProcs, gmMon, gmHist>>

\* the process is taken to be alive without being asked
StillDeadNever(alive) == FALSE

\* "if not self.is_process_alive():" after the restart
StillDead(alive) == ~alive

\* the second test of send_prompt_stream: raise Exception("... could not be restarted.")
Recheck(c) ==
    /\ gmCall[c].pc = "recheck"
    /\ IF StillDead(IsProcessAlive)
       THEN gmCall' = [gmCall EXCEPT ![c].pc = "failed"]
       ELSE gmCall' = [gmCall EXCEPT ![c].pc = "write", ![c].sawAlive = IsProcessAlive]
    /\ UNCHANGED <<notGem, gmProcess, gmRunning, gmQueue, gmProcs, gmMon, gmHist>>

\* "self.process.stdin.write(prompt + '\n'); flush()": on None or on a dead process
\* it raises, and the handler yields the error text
Write(c) ==
    /\ gmCall[c].pc = "write"
    /\ IF IsProcessAlive
       THEN /\ gmProcs' = [gmProcs EXCEPT ![gmProcess].stdin = Append(@, c)]
            /\ gmHist' = [gmHist EXCEPT !.written = @ \cup {c}]
            /\ gmCall' = [gmCall EXCEPT ![c].pc = "wait"]
       ELSE /\ gmCall' = [gmCall EXCEPT ![c].pc = "done",
                                        ![c].resp = Append(@, ErrorChunk(c))]
            /\ UNCHANGED <<gmProcs, gmHist>>
    /\ UNCHANGED <<notGem, gmProcess, gmRunning, gmQueue, gmMon>>

\* re.sub(r'Output:s?', '', line) leaves nothing of a line that holds the marker only
IsBlank(line) == line.text = "Output:"

\* "line.strip() == 'Input:'"
IsInput(line) == line.text = "Input:"

\* one turn of the loop of send_prompt_stream that finds a line in output_queue
GetLine(c) ==
    /\ gmCall[c].pc = "wait"
    /\ gmQueue # <<>>
    /\ gmQueue' = Tail(gmQueue)
    /\ LET line == Head(gmQueue)
       IN  gmCall' = IF IsBlank(line) THEN gmCall
                     ELSE IF IsInput(line) THEN [gmCall EXCEPT ![c].pc = "done"]
                     ELSE [gmCall EXCEPT ![c].resp = Append(@, line)]
    /\ UNCHANGED <<notGem, gmProcess, gmRunning, gmProcs, gmMon, gmHist>>

\* the loop ends after 120 seconds
Timeout(c) ==
    /\ gmCall[c].pc = "wait"
    /\ gmHist.timeouts < limits.timeouts
    /\ gmCall' = [gmCall EXCEPT ![c].pc = "done",
                                ![c].resp = IF @ = <<>> THEN <<SorryChunk(c)>> ELSE @]
    /\ gmHist' = [gmHist EXCEPT !.timeouts = @ + 1]
    /\ UNCHANGED <<notGem, gmProcess, gmRunning, gmQueue, gmProcs, gmMon>>

\* _monitor_output: "while self.running and self.process:"
MonCheck(t) ==
    /\ gmMon[t].pc = "check"
    /\ gmMon' = [gmMon EXCEPT ![t].pc = IF gmRunning /\ gmProcess # NoProc THEN "call"
                                        ELSE "stopped"]
    /\ UNCHANGED <<notGem, gmProcess, gmRunning, gmQueue, gmProcs, gmCall, gmHist>>

\* _monitor_output: "self.process.stdout.readline" is looked up; on None it raises and
\* the handler breaks
MonCall(t) ==
    /\ gmMon[t].pc = "call"
    /\ gmMon' = IF gmProcess = NoProc THEN [gmMon EXCEPT ![t].pc = "stopped"]
                ELSE [gmMon EXCEPT ![t].pc = "read", ![t].of = gmProcess]
    /\ UNCHANGED <<notGem, gmProcess, gmRunning, gmQueue, gmProcs, gmCall, gmHist>>

\* "if not line.startswith('Data collection is disabled')"
IsBanner(line) == line.text = "Data collection is disabled"

\* _monitor_output: readline() returns a line, which is queued, or the end of file
MonRead(t) ==
    /\ gmMon[t].pc = "read"
    /\ LET p == gmMon[t].of
       IN  IF gmProcs[p].stdout # <<>>
           THEN /\ gmProcs' = [gmProcs EXCEPT ![p].stdout = Tail(@)]
                /\ gmQueue' = IF IsBanner(Head(gmProcs[p].stdout)) THEN gmQueue
                              ELSE Append(gmQueue, Head(gmProcs[p].stdout))
                /\ gmMon' = [gmMon EXCEPT ![t] = [pc |-> "check", of |-> NoProc]]
           ELSE /\ gmProcs[p].state = "dead"
                /\ gmMon' = [gmMon EXCEPT ![t] = [pc |-> "stopped", of |-> NoProc]]
                /\ UNCHANGED <<gmProcs, gmQueue>>
    /\ UNCHANGED <<notGem, gmProcess, gmRunning, gmCall, gmHist>>

\* the tool reads a prompt from its stdin, prints the reply and asks for the next
\* prompt
ProcRead(p) ==
    /\ gmProcs[p].state = "alive"
    /\ gmProcs[p].stdin # <<>>
    /\ LET k == Head(gmProcs[p].stdin)
       IN  gmProcs' = [gmProcs EXCEPT ![p].stdin = Tail(@),
                                      ![p].stdout = @ \o <<HeaderLine(k), ReplyLine(k),
                                                           InputLine(k)>>]
    /\ UNCHANGED <<notGem, gmProcess, gmRunning, gmQueue, gmMon, gmCall, gmHist>>

\* the tool exits or crashes; what was in its stdin is lost with it
ProcessDies(p) ==
    /\ gmProcs[p].state = "alive"
    /\ gmHist.deaths < limits.deaths
    /\ gmProcs' = [gmProcs EXCEPT ![p].state = "dead", ![p].stdin = <<>>]
    /\ gmHist' = [gmHist EXCEPT !.deaths = @ + 1]
    /\ UNCHANGED <<notGem, gmProcess, gmRunning, gmQueue, gmMon, gmCall>>

GemNext ==
    \/ UpdateConfig
    \/ \E c \in Callers : RestartStop(c)
    \/ \E c \in Callers : RestartTerminate(c)
    \/ \E c \in Callers : StartProcess(c)
    \/ \E c \in Callers : RestartDone(c)
    \/ \E c \in Askers : Arrive(c)
    \/ \E c \in Askers : CheckAlive(c)
    \/ \E c \in Askers : Recheck(c)
    \/ \E c \in Askers : Write(c)
    \/ \E c \in Askers : GetLine(c)
    \/ \E c \in Askers : Timeout(c)
    \/ \E t \in Pids : MonCheck(t)
    \/ \E t \in Pids : MonCall(t)
    \/ \E t \in Pids : MonRead(t)
    \/ \E p \in Pids : ProcRead(p)
    \/ \E p \in Pids : ProcessDies(p)

SpecGemini == GemInit /\ [][GemNext]_vars

(***************************************************************************)
(* Properties of _log_state_diff on arbitrary snapshots (SpecDiff)         *)
(***************************************************************************)
EvCount(evs, sheet, cell) ==
    Cardinality({i \in DOMAIN evs : evs[i].sheet = sheet /\ evs[i].cell = cell})

IsSheetEvent(e) == e.cell = None

\* C1: the events of a diff partition the differences: one event for every sheet
\* of the symmetric difference of the sheet sets, one for every cell of a shared
\* sheet whose value differs, and no other event.
C1_DiffPartitionsDifferences ==
    dPc = "done" =>
        LET old_sheets == DOMAIN dOld
            new_sheets == DOMAIN dNew
            changed == (old_sheets \ new_sheets) \cup (new_sheets \ old_sheets)
            shared == old_sheets \cap new_sheets
        IN  /\ \A ws \in changed : EvCount(dOut, ws, None) = 1
            /\ \A ws \in shared : \A a \in Addrs :
                  EvCount(dOut, ws, a) =
                      IF DictGet(dOld[ws], a) # DictGet(dNew[ws], a) THEN 1 ELSE 0
            /\ \A i \in DOMAIN dOut :
                  IF IsSheetEvent(dOut[i]) THEN dOut[i].sheet \in changed
                  ELSE dOut[i].sheet \in shared

\* C5: in the events of one diff every sheet event precedes every cell event, and
\* the cell events of one sheet are in ascending string order of their addresses.
C5_SheetEventsFirstCellsAscending ==
    \A i, j \in DOMAIN dOut :
        i < j =>
            /\ IsSheetEvent(dOut[j]) => IsSheetEvent(dOut[i])
            /\ (~IsSheetEvent(dOut[i]) /\ ~IsSheetEvent(dOut[j])
                  /\ dOut[i].sheet = dOut[j].sheet)
               => LexLess(dOut[i].cell, dOut[j].cell)

C5_Witness ==
    /\ dPc = "done"
    /\ \E i, j, k \in DOMAIN dOut :
        /\ i < j /\ j < k
        /\ IsSheetEvent(dOut[i])
        /\ dOut[j].cell = <<"A", "1", "0">> /\ dOut[k].cell = <<"A", "2">>
        /\ dOut[j].sheet = dOut[k].sheet

\* C6: the sheet events of one diff are in ascending order of sheet name (stated
\* here for two events of the same kind, which any reading of the order includes).
C6_SheetEventsAscending ==
    \A i, j \in DOMAIN dOut :
        (i < j /\ IsSheetEvent(dOut[i]) /\ IsSheetEvent(dOut[j])
               /\ dOut[i].kind = dOut[j].kind)
            => LexLess(dOut[i].sheet, dOut[j].sheet)

(***************************************************************************)
(* Properties of the watchers (Spec)                                       *)
(***************************************************************************)
Compared == lastDiff.n > 0

EventsAt(ws, a) ==
    {lastDiff.events[i] : i \in {k \in DOMAIN lastDiff.events :
        lastDiff.events[k].sheet = ws /\ lastDiff.events[k].cell = a}}

\* C2: a comparison of a new snapshot equal to the stored one logs no event
\* (process_excel, and compare_and_log of the LibreOffice monitor).
C2_NoChangeNoEvents ==
    (program \in {"file", "libre"} /\ Compared /\ lastDiff.old = lastDiff.new)
        => lastDiff.events = <<>>

C2_Witness ==
    /\ program = "file" /\ Compared
    /\ lastDiff.old = lastDiff.new
    /\ lastDiff.old # EmptyDict
    /\ nEdits > 0

\* C3: in ExcelMonitor nothing is compared or logged while start_monitoring loads
\* the baselines, and events are logged for a file only against a stored baseline
\* of that file, never against the empty state that stands for "first load".
C3_NoEventsBeforeBaseline ==
    program = "file" =>
        /\ mainPc = "load" => lastDiff = NoDiff
        /\ lastDiff.events # <<>> =>
              /\ lastDiff.hadBaseline
              /\ lastDiff.file \in DOMAIN excel_states
              /\ lastDiff.old # EmptyDict

C3_Witness ==
    /\ program = "file" /\ Compared
    /\ lastDiff.old = EmptyDict /\ lastDiff.new # EmptyDict
    /\ lastDiff.events = <<>>

\* C4: for a sheet in both snapshots and an address in either, exactly one
\* "Cell created" event with the new value is logged when the address is only
\* in the new one, one "Cell deleted" with the old value when it is only in the old
\* one, one "Cell updated" with both when the texts differ, and none when equal.
C4_CellEventsClassify ==
    (program \in {"file", "libre"} /\ Compared) =>
        \A ws \in (DOMAIN lastDiff.old) \cap (DOMAIN lastDiff.new) :
            \A a \in (DOMAIN lastDiff.old[ws]) \cup (DOMAIN lastDiff.new[ws]) :
                LET o == DictGet(lastDiff.old[ws], a)
                    n == DictGet(lastDiff.new[ws], a)
                IN  /\ EvCount(lastDiff.events, ws, a) = IF o = n THEN 0 ELSE 1
                    /\ EventsAt(ws, a) =
                         IF o = n THEN {}
                         ELSE IF o = None
                         THEN {CellEvent("CellCreated", lastDiff.file, ws, a, None, n)}
                         ELSE IF n = None
                         THEN {CellEvent("CellDeleted", lastDiff.file, ws, a, o, None)}
                         ELSE {CellEvent("CellUpdated", lastDiff.file, ws, a, o, n)}

C4_Witness ==
    /\ program = "file" /\ Compared
    /\ \E i \in DOMAIN lastDiff.events : lastDiff.events[i].kind = "CellDeleted"

\* the stored snapshots of every watcher, as a set of sheet states
StoredSheetStates ==
    UNION {{excel_states[f][ws] : ws \in DOMAIN excel_states[f]} : f \in DOMAIN excel_states}
    \cup {loStates[ws] : ws \in DOMAIN loStates}
    \cup {wpsStates[ws] : ws \in DOMAIN wpsStates}

\* C7: no stored snapshot of any watcher maps an address to an empty or
\* whitespace-only text.
C7_NoBlankStored ==
    \A st \in StoredSheetStates : \A a \in DOMAIN st : Strip(st[a]) # <<>>

\* C8: the signals for a file that arrive during one pass over that file start at
\* most one further pass over it.
C8_AtMostOneReprocess == \A k \in DOMAIN reproc : reproc[k] <= 1

\* C9: with no edit by another program, a pass over a file whose content is what
\* the previous pass over it left reports modified = False and writes neither a
\* backup nor the file.
C9_SecondPassNotModified ==
    (program = "file" /\ nEdits = 0
        /\ wkPc \in {"backup", "save", "saving", "restate", "finish"}
        /\ wkFile \in DOMAIN leftOnDisk /\ wkFile \in DOMAIN tmp
        /\ tmp[wkFile] = leftOnDisk[wkFile])
    => (~wkModified /\ wkPc = "finish")

\* C10: a backup holds the content the file had before the highlight that
\* created the backup, also after later passes.
C10_BackupKeepsPreHighlight ==
    /\ DOMAIN backups = DOMAIN preHighlight
    /\ \A b \in DOMAIN backups : backups[b] = preHighlight[b]

\* a step of the worker thread
WorkerStep == wkPc' # wkPc

\* process_excel is not running, or has not made its copy yet
OutsideCopy == wkPc \in {"get", "probe", "capture", "copy", "drain", "done"}

C12_WriteConflictAbandons ==
    [][(program = "file" /\ wkPc = "save" /\ WorkerStep
          /\ (disk[wkFile].wb # tmp[wkFile] \/ wkFile \in flocked))
        => disk' = disk]_vars

\* C13: every step of a pass that changes the live file leaves the complete
\* modified workbook there (one atomic replace).
C13_AtomicReplace ==
    [][(program = "file" /\ WorkerStep /\ disk' # disk)
        => disk' = [disk EXCEPT ![wkFile] = OnDisk(wkWb)]]_vars

\* C14: a capture that fails (the file is missing or is no workbook) logs no change
\* event and leaves the stored snapshots as they are.
C14_FailedCaptureSkips ==
    [][(program = "file" /\ wkPc = "capture" /\ WorkerStep /\ ~Parsable(disk[wkFile]))
        => (excel_states' = excel_states /\ lastDiff'.events = <<>>)]_vars

\* C15: start_monitoring does not give up on the watched files that exist because
\* another watched file is missing.
C15_MissingFileIsolated ==
    (program = "file" /\ mainPc = "returned") => \A f \in Watched : ~disk[f].exists

\* C16: the worker holds the lock only after the baseline loop of the main thread
\* is over, and once the thread is started every change of excel_states is a step
\* of the worker holding the lock.
C16_StoredStateUnderLock ==
    /\ [](program = "file" /\ LockHeld => mainPc # "load")
    /\ [][(program = "file" /\ excel_states' # excel_states)
            => IF mainPc = "load" THEN ~WorkerStep ELSE (WorkerStep /\ LockHeld)]_vars

C16_Witness ==
    /\ program = "file" /\ wkPc = "finish" /\ wkModified
    /\ lastDiff.n = passNo /\ lastDiff.events # <<>>
    /\ excel_states[wkFile] = lastDiff.new

\* C17: when the watcher has shut down after stop(), no pass is left unfinished.
C17_InFlightPassCompletes ==
    (program = "file" /\ mainPc = "exited") => wkPc \in {"get", "done"}

\* a worker step that leaves the stored snapshots of the other files alone
OthersKept ==
    \A f \in (DOMAIN excel_states) \ {wkFile} :
        f \in DOMAIN excel_states' /\ excel_states'[f] = excel_states[f]

\* C18 as stated: when a pass ends normally the stored snapshot of its file is
\* the snapshot of what is on disk, and the pass changed no other stored snapshot.
C18_StoredIsOnDiskAtEnd ==
    [][(program = "file" /\ WorkerStep)
        => /\ OthersKept
           /\ (wkPc = "finish") =>
                  StoredState(wkFile) = GetExcelState(disk[wkFile])]_vars

\* C18 amended: the same, for a pass during which no other program wrote the file
\* after the pass last captured it.
C18_StoredIsOnDiskUnlessWritten ==
    [][(program = "file" /\ WorkerStep)
        => /\ OthersKept
           /\ (wkPc = "finish" /\ wkFile \notin writtenSince) =>
                  StoredState(wkFile) = GetExcelState(disk[wkFile])]_vars

C18_Witness ==
    /\ program = "file" /\ wkPc = "drain" /\ wkModified
    /\ nEdits > 0 /\ wkFile \notin writtenSince
    /\ wkFile \in DOMAIN leftOnDisk
    /\ lastDiff.n = passNo /\ lastDiff.events # <<>>
    /\ StoredState(wkFile) = GetExcelState(disk[wkFile])

\* C19: a callback of the host application (modified, OnSheetChange) compares
\* nothing and stores nothing itself.
C19_CallbackOnlyHandsOff ==
    [][(program \in {"libre", "wps"} /\ nSignals' # nSignals)
        => (loStates' = loStates /\ wpsStates' = wpsStates /\ lastDiff' = lastDiff)]_vars

\* C20: when every write has been followed by a signal, the queue is empty and the
\* worker waits for the next entry, the stored snapshot of every watched workbook
\* is the snapshot of the file on disk.
C20_IdleMeansCaptured ==
    (program = "file" /\ mainPc = "run" /\ running
        /\ event_queue = <<>> /\ wkPc = "get" /\ unsignalled = {})
    => \A f \in Watched : Parsable(disk[f]) => StoredState(f) = GetExcelState(disk[f])

\* the watcher waits: nothing is queued and no event of its own is undelivered
Quiet ==
    /\ mainPc = "run" /\ running
    /\ wkPc = "get" /\ event_queue = <<>> /\ ownEvents = {}

\* C21: a pass that found its file locked is made up for: when the watcher waits,
\* every write has been signalled and a file's last pass returned at the lock probe
\* with a change of the file unreported, the file is still locked.
C21_LockedSignalRetried ==
    (program = "file" /\ Quiet /\ unsignalled = {})
    => \A f \in skipped \cap writtenSince : f \in flocked

\* C22: once a file has a stored baseline, a pass whose new snapshot differs from
\* the stored one logs at least one event, whatever the stored snapshot is.
C22_ChangeAfterBaselineReported ==
    (program = "file" /\ Compared /\ lastDiff.hadBaseline /\ lastDiff.old # lastDiff.new)
    => lastDiff.events # <<>>

\* C23: after one edit by another program and with no lock taken, the watcher
\* comes to rest: from some point on it waits, with nothing queued and no event of
\* its own undelivered (so it makes finitely many passes and backups).
C23_OwnEventsSettle ==
    (<>(nEdits = 1) /\ [](flocked = {})) => <>[]Quiet

\* process_excel is running
InPass == wkPc \notin {"get", "drain", "done"}

\* the entries of the event queue for the file of the running pass that arrived
\* during that pass
ArrivedInPass ==
    Cardinality({i \in DOMAIN event_queue :
                    event_queue[i].path = wkFile /\ event_queue[i].during = passNo})

\* C24: the signals for a file that arrive while it is being processed are
\* coalesced: the number of queue entries they leave stays below a constant,
\* here any constant smaller than the number of signals the run can receive
\* during one pass.
C24_QueueCoalesced ==
    (program = "file" /\ InPass) => ArrivedInPass < MaxQueue

\* C25: the WPS monitor logs an event for a sheet only against a stored baseline
\* of that sheet, and compare_and_log runs only once run() has captured every sheet.
C25_WpsBaselineBeforeEvents ==
    /\ [](program = "wps" /\ lastDiff.events # <<>> => lastDiff.hadBaseline)
    /\ [][(program = "wps" /\ lastDiff' # lastDiff) => wpsPc = "pump"]_vars

\* C26: a call of compare_and_log of the WPS monitor on a sheet with a baseline
\* logs exactly one event for every address whose value in the snapshot it stores
\* differs from the value in the snapshot it replaces.
C26_WpsAbsorbedIsReported ==
    (program = "wps" /\ Compared /\ lastDiff.hadBaseline) =>
        \A ws \in DOMAIN lastDiff.new :
            \A a \in (DOMAIN lastDiff.old[ws]) \cup (DOMAIN lastDiff.new[ws]) :
                DictGet(lastDiff.old[ws], a) # DictGet(lastDiff.new[ws], a)
                    => EvCount(lastDiff.events, ws, a) = 1

(***************************************************************************)
(* Properties of the gemini proxy (SpecGemini)                             *)
(***************************************************************************)
\* C27: the response of a call holds only lines that answer the call's own prompt
\* (checked for runs in which the requests never overlap).
C27_ResponseIsOwnReply ==
    (program = "gemini" /\ ~gmHist.overlap) =>
        \A c \in Askers : \A i \in DOMAIN gmCall[c].resp : gmCall[c].resp[i].prompt = c

\* C28: a monitor thread reads the stdout of the process it was started for and of
\* no other.
C28_MonitorReadsOwnProcess ==
    program = "gemini" => \A t \in Pids : gmMon[t].pc = "read" => gmMon[t].of = t

====
